---- MODULE Spec2Model ----
(***************************************************************************)
(* bevy_malek_async: the access broker of src/src/lib.rs.                  *)
(*                                                                         *)
(* Async tasks poll a SystemParamThing future (async_access); the host     *)
(* loop of each World runs run_async_ecs_accesses at its checkpoints.      *)
(* The statics ASYNC_ECS_WORLD_ACCESS (one Mutex<Option<UnsafeWorldCell>>  *)
(* for the whole process) and ASYNC_ECS_WAKER_LIST (one                    *)
(* Mutex<HashMap<WorldId, Vec<Waker>>>) and the per-World resource         *)
(* AsyncEcsCounter (Arc<Mutex<Vec<WaitGroup>>>) are the shared state.      *)
(*                                                                         *)
(* Every step below is one critical section or one statement of the        *)
(* source; a mutex that the source holds across several statements is a    *)
(* variable naming its holder.                                             *)
(***************************************************************************)
EXTENDS Integers, Sequences, FiniteSets, TLC

\* ------------------------------------------------------------- bounds
\* Number of async tasks, each awaiting one async_access future.
NumTasks == 2
\* Number of polls the executors may make without a wake (spurious polls).
MaxSpurious == 1

Task == 1..NumTasks
World == {"A", "B"}
None == "None"
\* HashMap::new(): no key present.
EmptyMap == [w \in {} |-> <<>>]

VARIABLES
    \* --- environment
    worlds,                 \* the Worlds whose App has AsyncPlugin (a driver runs for them)
    world_id,               \* SystemParamThing.3 of each task's future
    \* --- the async system that AsyncCommands::run drives on each task's thread
    sys,                    \* "running", or how it finished: "ok" or "err"
    handled,                \* per task: calls of the World's error handler
    \* --- statics and resources of lib.rs
    ASYNC_ECS_WORLD_ACCESS, \* the Option inside the gate mutex: None or the World installed
    access_lock,            \* the task holding the gate mutex across its closure: {t} or {}
    poisoned,               \* the gate mutex is poisoned (a holder panicked)
    ASYNC_ECS_WAKER_LIST,   \* HashMap<WorldId, Vec<Waker>>: a function on the present keys
    waker_lock,             \* holder of the waker-list mutex across a driver's then-block
    AsyncEcsCounter,        \* per World: number of WaitGroup clones in the tickets Vec
    counter,                \* per World: a counter field of the Resource, written by closures
    applied,                \* per World: deferred mutations applied by SystemState::apply
    \* --- run_async_ecs_accesses, one activation per World
    dpc,                    \* position of the driver
    wakers,                 \* the drained Vec<Waker> still to be woken
    num_wakers,             \* the local num_wakers
    \* --- SystemParamThing::poll, one future per task
    tpc,                    \* position of the task
    woken,                  \* the task's waker was called since its last poll began
    ecs_access,             \* SystemParamThing.2 is Some (the closure not yet taken)
    wc,                     \* the World behind the handle this poll got from the gate
    local,                  \* the closure's read of the counter
    out,                    \* the local out of poll
    result,                 \* the value the await produced
    queued,                 \* the SystemState holds a deferred mutation not yet applied
    \* --- history (read by the properties only)
    regTask,                \* registration i was made by task regTask[i]
    wakeCount,              \* how many times registration i was woken
    late,                   \* per World: registrations made after the current drain
    runs,                   \* per task: how many times its closure ran
    spurious,               \* spurious polls made so far
    startN,                 \* per World: wakers registered when the checkpoint began
    startClean,             \* per World: no registration was in flight at that point
    startFanIn,             \* per World: every unresolved task was parked once at that point
    startCounter,           \* per World: counter when the checkpoint began
    popped,                 \* per World: tickets popped since the reset
    completions,            \* per World: closures completed since the reset
    drained                 \* per World: tasks whose wakers the last drain took

envVars == <<worlds, world_id>>
cmdVars == <<sys, handled>>
gateVars == <<ASYNC_ECS_WORLD_ACCESS, access_lock, poisoned>>
listVars == <<ASYNC_ECS_WAKER_LIST, waker_lock>>
resVars == <<counter, applied>>
drvVars == <<dpc, wakers, num_wakers>>
futVars == <<ecs_access, wc, local, out, result, queued>>
startVars == <<startN, startClean, startFanIn, startCounter>>
histVars == <<regTask, wakeCount, late, runs, spurious, popped, completions, drained>>

vars == <<envVars, cmdVars, gateVars, listVars, AsyncEcsCounter, resVars, drvVars,
          tpc, woken, futVars, startVars, histVars>>

\* ------------------------------------------------------------- helpers
\* HashMap::contains_key
contains_key(w) == w \in DOMAIN ASYNC_ECS_WAKER_LIST

\* The Vec<Waker> registered for w (empty when the key is absent).
waiting(w) == IF contains_key(w) THEN ASYNC_ECS_WAKER_LIST[w] ELSE <<>>

\* The tasks behind a sequence of registrations.
TasksOf(s) == {regTask[s[i]] : i \in 1..Len(s)}

\* How many registrations of s belong to task t.
Occurrences(s, t) == Cardinality({i \in 1..Len(s) : regTask[s[i]] = t})

\* The then-branch of poll: between taking the gate mutex and dropping it.
InClosure(t) == tpc[t] \in {"closure", "write", "apply", "pop"}

\* Vec::pop on the tickets: drops one WaitGroup clone, a no-op on an empty Vec.
pop(n) == IF n > 0 THEN n - 1 ELSE 0

\* The guard of `.lock()` on the gate mutex: nobody holds it.
lock_free == access_lock = {}

\* A poll that takes the then-branch whatever the gate holds.
is_some_unchecked == TRUE

\* `let Some(wc) = ...lock().unwrap().as_mut()`: the gate holds a handle.
is_some == ASYNC_ECS_WORLD_ACCESS # None

\* A driver that does not block on the WaitGroup.
wg_done_unchecked(w) == TRUE

\* The gate that the futures and the driver of World w use: the one static.
gate(w) == ASYNC_ECS_WORLD_ACCESS

\* WaitGroup::wait returns once every clone pushed into the tickets is dropped.
wg_done(w) == AsyncEcsCounter[w] = 0

\* ------------------------------------------------------------- initial states
\* ws are the Worlds that have the plugin, ids the WorldIds that the futures
\* are created with.
InitOf(ws, ids) ==
    /\ worlds = ws
    /\ world_id \in [Task -> ids]
    /\ sys = [t \in Task |-> "running"]
    /\ handled = [t \in Task |-> 0]
    /\ ASYNC_ECS_WORLD_ACCESS = None
    /\ access_lock = {}
    /\ poisoned = FALSE
    /\ ASYNC_ECS_WAKER_LIST = EmptyMap
    /\ waker_lock = None
    /\ AsyncEcsCounter = [w \in World |-> 0]
    /\ counter = [w \in World |-> 0]
    /\ applied = [w \in World |-> 0]
    /\ dpc = [w \in World |-> "host"]
    /\ wakers = [w \in World |-> <<>>]
    /\ num_wakers = [w \in World |-> 0]
    /\ tpc = [t \in Task |-> "new"]
    /\ woken = [t \in Task |-> FALSE]
    /\ ecs_access = [t \in Task |-> TRUE]
    /\ wc = [t \in Task |-> None]
    /\ local = [t \in Task |-> 0]
    /\ out = [t \in Task |-> 0]
    /\ result = [t \in Task |-> 0]
    /\ queued = [t \in Task |-> FALSE]
    /\ regTask = <<>>
    /\ wakeCount = <<>>
    /\ late = [w \in World |-> {}]
    /\ runs = [t \in Task |-> 0]
    /\ spurious = 0
    /\ startN = [w \in World |-> 0]
    /\ startClean = [w \in World |-> FALSE]
    /\ startFanIn = [w \in World |-> FALSE]
    /\ startCounter = [w \in World |-> 0]
    /\ popped = [w \in World |-> 0]
    /\ completions = [w \in World |-> 0]
    /\ drained = [w \in World |-> {}]

\* Every future names a World that has the plugin.
InitWith(ws) == InitOf(ws, ws)

\* One World with the plugin: every future names it.
Init == InitWith({"A"})

\* ------------------------------------------------------------- SystemParamThing::poll
\* A poll whose handle is copied out of the gate and the guard dropped at once:
\* other polls get in while this one's closure runs.
poll_begin_unlocked(t) ==
    /\ ~poisoned
    /\ woken' = [woken EXCEPT ![t] = FALSE]
    /\ IF is_some
         THEN /\ tpc' = [tpc EXCEPT ![t] = "closure"]
              /\ wc' = [wc EXCEPT ![t] = ASYNC_ECS_WORLD_ACCESS]
         ELSE /\ tpc' = [tpc EXCEPT ![t] = "register"]
              /\ wc' = wc
    /\ UNCHANGED <<envVars, cmdVars, gateVars, listVars, AsyncEcsCounter,
                   resVars, drvVars, ecs_access, local, out, result, queued, startVars,
                   regTask, wakeCount, late, runs, popped, completions, drained>>

\* Lines 45-47 and 69: the gate mutex is locked and the Option inspected.  With
\* Some the guard lives on through the then-block; with None it is dropped before
\* the else-block runs.
poll_begin(t) ==
    /\ lock_free
    /\ ~poisoned
    /\ woken' = [woken EXCEPT ![t] = FALSE]
    /\ IF is_some
         THEN /\ tpc' = [tpc EXCEPT ![t] = "closure"]
              /\ access_lock' = {t}
              /\ wc' = [wc EXCEPT ![t] = ASYNC_ECS_WORLD_ACCESS]
         ELSE /\ tpc' = [tpc EXCEPT ![t] = "register"]
              /\ access_lock' = access_lock
              /\ wc' = wc
    /\ UNCHANGED <<envVars, cmdVars, ASYNC_ECS_WORLD_ACCESS, poisoned, listVars, AsyncEcsCounter,
                   resVars, drvVars, ecs_access, local, out, result, queued, startVars,
                   regTask, wakeCount, late, runs, popped, completions, drained>>

\* The executor polls the future for the first time.
poll_first(t) ==
    /\ tpc[t] = "new"
    /\ poll_begin(t)
    /\ UNCHANGED spurious

\* The executor polls the future again after its waker was called.
poll_woken(t) ==
    /\ tpc[t] = "parked"
    /\ woken[t]
    /\ poll_begin(t)
    /\ UNCHANGED spurious

\* The executor polls the pending future although nobody woke it.
poll_spurious(t) ==
    /\ tpc[t] = "parked"
    /\ ~woken[t]
    /\ spurious < MaxSpurious
    /\ spurious' = spurious + 1
    /\ poll_begin(t)

\* Line 58: the closure is taken out of the future and starts; it reads the
\* counter of the World behind wc.
closure_take(t) ==
    /\ tpc[t] = "closure"
    /\ ecs_access[t]
    /\ ecs_access' = [ecs_access EXCEPT ![t] = FALSE]
    /\ local' = [local EXCEPT ![t] = counter[wc[t]]]
    /\ runs' = [runs EXCEPT ![t] = @ + 1]
    /\ tpc' = [tpc EXCEPT ![t] = "write"]
    /\ UNCHANGED <<envVars, cmdVars, gateVars, listVars, AsyncEcsCounter, resVars, drvVars,
                   woken, wc, out, result, queued, startVars,
                   regTask, wakeCount, late, spurious, popped, completions, drained>>

\* A closure's end that goes straight on to the ticket: the deferred mutation it
\* queued is never applied.
closure_return_no_apply(t) ==
    /\ tpc[t] = "write"
    /\ counter' = [counter EXCEPT ![wc[t]] = local[t] + 1]
    /\ out' = [out EXCEPT ![t] = local[t] + 1]
    /\ queued' = [queued EXCEPT ![t] = TRUE]
    /\ tpc' = [tpc EXCEPT ![t] = "pop"]
    /\ UNCHANGED <<envVars, cmdVars, gateVars, listVars, AsyncEcsCounter, applied, drvVars,
                   woken, ecs_access, wc, local, result, startVars, histVars>>

\* Line 58, the closure's end: it stores counter + 1, queues one deferred
\* mutation in the SystemState and returns the new counter.  The closure of
\* AsyncWorld::handle_error (async_world.rs:78-80) calls the World's error
\* handler instead.
closure_return(t) ==
    /\ tpc[t] = "write"
    /\ IF sys[t] = "err"
         THEN /\ handled' = [handled EXCEPT ![t] = @ + 1]
              /\ UNCHANGED <<counter, out, queued>>
         ELSE /\ counter' = [counter EXCEPT ![wc[t]] = local[t] + 1]
              /\ out' = [out EXCEPT ![t] = local[t] + 1]
              /\ queued' = [queued EXCEPT ![t] = TRUE]
              /\ handled' = handled
    /\ tpc' = [tpc EXCEPT ![t] = "apply"]
    /\ UNCHANGED <<envVars, sys, gateVars, listVars, AsyncEcsCounter, applied, drvVars,
                   woken, ecs_access, wc, local, result, startVars, histVars>>

\* Line 60: system_state.apply(world) applies the deferred mutation.
apply(t) ==
    /\ tpc[t] = "apply"
    /\ applied' = [applied EXCEPT ![wc[t]] = IF queued[t] THEN @ + 1 ELSE @]
    /\ queued' = [queued EXCEPT ![t] = FALSE]
    /\ tpc' = [tpc EXCEPT ![t] = "pop"]
    /\ UNCHANGED <<envVars, cmdVars, gateVars, listVars, AsyncEcsCounter, counter, drvVars,
                   woken, ecs_access, wc, local, out, result, startVars, histVars>>

\* Lines 61-68: one ticket of the World behind wc is popped, Ready(out) is returned
\* and the gate's guard is dropped.
pop_ready(t) ==
    /\ tpc[t] = "pop"
    /\ AsyncEcsCounter' = [AsyncEcsCounter EXCEPT ![wc[t]] = pop(@)]
    /\ popped' = [popped EXCEPT ![wc[t]] = IF AsyncEcsCounter[wc[t]] > 0 THEN @ + 1 ELSE @]
    /\ completions' = [completions EXCEPT ![wc[t]] = @ + 1]
    /\ access_lock' = {}
    /\ result' = [result EXCEPT ![t] = out[t]]
    /\ tpc' = [tpc EXCEPT ![t] = "done"]
    /\ UNCHANGED <<envVars, cmdVars, ASYNC_ECS_WORLD_ACCESS, poisoned, listVars, resVars, drvVars,
                   woken, ecs_access, wc, local, out, queued, startVars,
                   regTask, wakeCount, late, runs, spurious, drained>>

\* A poll that calls the closure before it looks at the gate: the Pending path
\* runs it too, and leaves it in the future for the next poll.
poll_register_eager(t) ==
    /\ tpc[t] = "register"
    /\ waker_lock = None
    /\ LET w == world_id[t]
           id == Len(regTask) + 1
       IN  /\ ASYNC_ECS_WAKER_LIST' =
                 [x \in DOMAIN ASYNC_ECS_WAKER_LIST \cup {w} |->
                     IF x = w THEN Append(waiting(w), id) ELSE ASYNC_ECS_WAKER_LIST[x]]
           /\ regTask' = Append(regTask, t)
           /\ wakeCount' = Append(wakeCount, 0)
           /\ late' = [late EXCEPT ![w] =
                          IF dpc[w] \in {"reset", "wake", "wait", "close"}
                            THEN @ \cup {id} ELSE @]
           /\ counter' = [counter EXCEPT ![w] = @ + 1]
    /\ runs' = [runs EXCEPT ![t] = @ + 1]
    /\ tpc' = [tpc EXCEPT ![t] = "parked"]
    /\ UNCHANGED <<envVars, cmdVars, gateVars, waker_lock, AsyncEcsCounter, applied, drvVars,
                   woken, futVars, startVars, spurious, popped, completions, drained>>

\* Lines 70-78: the waker is pushed onto the Vec of the future's WorldId (the key
\* is inserted first when absent) and Pending is returned.
poll_register(t) ==
    /\ tpc[t] = "register"
    /\ waker_lock = None
    /\ LET w == world_id[t]
           id == Len(regTask) + 1
       IN  /\ ASYNC_ECS_WAKER_LIST' =
                 [x \in DOMAIN ASYNC_ECS_WAKER_LIST \cup {w} |->
                     IF x = w THEN Append(waiting(w), id) ELSE ASYNC_ECS_WAKER_LIST[x]]
           /\ regTask' = Append(regTask, t)
           /\ wakeCount' = Append(wakeCount, 0)
           /\ late' = [late EXCEPT ![w] =
                          IF dpc[w] \in {"reset", "wake", "wait", "close"}
                            THEN @ \cup {id} ELSE @]
    /\ tpc' = [tpc EXCEPT ![t] = "parked"]
    /\ UNCHANGED <<envVars, cmdVars, gateVars, waker_lock, AsyncEcsCounter, resVars, drvVars,
                   woken, futVars, startVars, runs, spurious, popped, completions, drained>>

\* The awaiting task drops the pending future; its waker stays registered.
drop_future(t) ==
    /\ tpc[t] = "parked"
    /\ tpc' = [tpc EXCEPT ![t] = "dropped"]
    /\ woken' = [woken EXCEPT ![t] = FALSE]
    /\ UNCHANGED <<envVars, cmdVars, gateVars, listVars, AsyncEcsCounter, resVars, drvVars,
                   futVars, startVars, histVars>>

\* ------------------------------------------------------------- run_async_ecs_accesses
\* Lines 84-93: the gate is opened with a handle to this World.
run_open(w) ==
    /\ w \in worlds
    /\ dpc[w] = "host"
    /\ lock_free
    /\ ~poisoned
    /\ ASYNC_ECS_WORLD_ACCESS' = w
    /\ dpc' = [dpc EXCEPT ![w] = "drain"]
    /\ startN' = [startN EXCEPT ![w] = Len(waiting(w))]
    /\ startClean' = [startClean EXCEPT ![w] =
                         \A t \in Task : world_id[t] = w => tpc[t] # "register"]
    /\ startFanIn' = [startFanIn EXCEPT ![w] =
                         \A t \in Task :
                            \/ tpc[t] = "done"
                            \/ /\ tpc[t] = "parked"
                               /\ world_id[t] = w
                               /\ Occurrences(waiting(w), t) = 1]
    /\ startCounter' = [startCounter EXCEPT ![w] = counter[w]]
    /\ late' = [late EXCEPT ![w] = {}]
    /\ UNCHANGED <<envVars, cmdVars, access_lock, poisoned, listVars, AsyncEcsCounter, resVars,
                   wakers, num_wakers, tpc, woken, futVars,
                   regTask, wakeCount, runs, spurious, popped, completions, drained>>

\* A drain that clones the Vec and leaves the entry in the map.
run_drain_some_keep(w) ==
    /\ dpc[w] = "drain"
    /\ waker_lock = None
    /\ contains_key(w)
    /\ wakers' = [wakers EXCEPT ![w] = ASYNC_ECS_WAKER_LIST[w]]
    /\ num_wakers' = [num_wakers EXCEPT ![w] = Len(ASYNC_ECS_WAKER_LIST[w])]
    /\ waker_lock' = w
    /\ drained' = [drained EXCEPT ![w] = TasksOf(ASYNC_ECS_WAKER_LIST[w])]
    /\ dpc' = [dpc EXCEPT ![w] = "reset"]
    /\ UNCHANGED <<envVars, cmdVars, gateVars, ASYNC_ECS_WAKER_LIST, AsyncEcsCounter, resVars,
                   tpc, woken, futVars, startVars, regTask, wakeCount, late, runs,
                   spurious, popped, completions>>

\* Lines 95-101 with an entry for this World: the Vec is removed from the map and
\* the map's guard stays alive for the then-block.
run_drain_some(w) ==
    /\ dpc[w] = "drain"
    /\ waker_lock = None
    /\ contains_key(w)
    /\ wakers' = [wakers EXCEPT ![w] = ASYNC_ECS_WAKER_LIST[w]]
    /\ num_wakers' = [num_wakers EXCEPT ![w] = Len(ASYNC_ECS_WAKER_LIST[w])]
    /\ ASYNC_ECS_WAKER_LIST' =
          [x \in DOMAIN ASYNC_ECS_WAKER_LIST \ {w} |-> ASYNC_ECS_WAKER_LIST[x]]
    /\ waker_lock' = w
    /\ drained' = [drained EXCEPT ![w] = TasksOf(ASYNC_ECS_WAKER_LIST[w])]
    /\ dpc' = [dpc EXCEPT ![w] = "reset"]
    /\ UNCHANGED <<envVars, cmdVars, gateVars, AsyncEcsCounter, resVars, tpc, woken, futVars,
                   startVars, regTask, wakeCount, late, runs, spurious, popped,
                   completions>>

\* A driver that blocks on the WaitGroup although nothing was drained.
run_drain_none_wait(w) ==
    /\ dpc[w] = "drain"
    /\ waker_lock = None
    /\ ~contains_key(w)
    /\ num_wakers' = [num_wakers EXCEPT ![w] = 0]
    /\ drained' = [drained EXCEPT ![w] = {}]
    /\ popped' = [popped EXCEPT ![w] = 0]
    /\ completions' = [completions EXCEPT ![w] = 0]
    /\ dpc' = [dpc EXCEPT ![w] = "wait"]
    /\ UNCHANGED <<envVars, cmdVars, gateVars, listVars, AsyncEcsCounter, resVars, wakers,
                   tpc, woken, futVars, startVars, regTask, wakeCount, late, runs,
                   spurious>>

\* Lines 94-99 and 121 without an entry: num_wakers stays 0 and the then-block
\* is skipped.
run_drain_none(w) ==
    /\ dpc[w] = "drain"
    /\ waker_lock = None
    /\ ~contains_key(w)
    /\ num_wakers' = [num_wakers EXCEPT ![w] = 0]
    /\ drained' = [drained EXCEPT ![w] = {}]
    /\ popped' = [popped EXCEPT ![w] = 0]
    /\ completions' = [completions EXCEPT ![w] = 0]
    /\ dpc' = [dpc EXCEPT ![w] = "close"]
    /\ UNCHANGED <<envVars, cmdVars, gateVars, listVars, AsyncEcsCounter, resVars, wakers,
                   tpc, woken, futVars, startVars, regTask, wakeCount, late, runs,
                   spurious>>

\* A reset whose loop runs once too often (0..=num_wakers).
run_reset_off_by_one(w) ==
    /\ dpc[w] = "reset"
    /\ AsyncEcsCounter' = [AsyncEcsCounter EXCEPT ![w] = num_wakers[w] + 1]
    /\ popped' = [popped EXCEPT ![w] = 0]
    /\ completions' = [completions EXCEPT ![w] = 0]
    /\ dpc' = [dpc EXCEPT ![w] = "wake"]
    /\ UNCHANGED <<envVars, cmdVars, gateVars, listVars, resVars, wakers, num_wakers,
                   tpc, woken, futVars, startVars, regTask, wakeCount, late, runs,
                   spurious, drained>>

\* Lines 102-114: the tickets are cleared and num_wakers clones of a new
\* WaitGroup pushed.
run_reset(w) ==
    /\ dpc[w] = "reset"
    /\ AsyncEcsCounter' = [AsyncEcsCounter EXCEPT ![w] = num_wakers[w]]
    /\ popped' = [popped EXCEPT ![w] = 0]
    /\ completions' = [completions EXCEPT ![w] = 0]
    /\ dpc' = [dpc EXCEPT ![w] = "wake"]
    /\ UNCHANGED <<envVars, cmdVars, gateVars, listVars, resVars, wakers, num_wakers,
                   tpc, woken, futVars, startVars, regTask, wakeCount, late, runs,
                   spurious, drained>>

\* A fan-out that drops the next waker without calling wake().
run_wake_lost(w) ==
    /\ dpc[w] = "wake"
    /\ wakers[w] # <<>>
    /\ LET id == Head(wakers[w])
       IN  wakeCount' = [wakeCount EXCEPT ![id] = @ + 1]
    /\ wakers' = [wakers EXCEPT ![w] = Tail(@)]
    /\ UNCHANGED <<envVars, cmdVars, gateVars, listVars, AsyncEcsCounter, resVars, dpc, num_wakers,
                   tpc, woken, futVars, startVars, regTask, late, runs, spurious, popped,
                   completions, drained>>

\* A fan-out that takes the wakers from the back of the Vec (while let
\* Some(waker) = wakers.pop()).
run_wake_back(w) ==
    /\ dpc[w] = "wake"
    /\ wakers[w] # <<>>
    /\ LET id == wakers[w][Len(wakers[w])]
           t == regTask[id]
       IN  /\ woken' = [woken EXCEPT ![t] = tpc[t] \in {"parked", "register"}]
           /\ wakeCount' = [wakeCount EXCEPT ![id] = @ + 1]
    /\ wakers' = [wakers EXCEPT ![w] = SubSeq(@, 1, Len(@) - 1)]
    /\ UNCHANGED <<envVars, cmdVars, gateVars, listVars, AsyncEcsCounter, resVars, dpc, num_wakers,
                   tpc, futVars, startVars, regTask, late, runs, spurious, popped,
                   completions, drained>>

\* Lines 115-117, one iteration: the next waker is woken.  A task that still
\* awaits its future is scheduled for another poll.
run_wake(w) ==
    /\ dpc[w] = "wake"
    /\ wakers[w] # <<>>
    /\ LET id == Head(wakers[w])
           t == regTask[id]
       IN  /\ woken' = [woken EXCEPT ![t] = tpc[t] \in {"parked", "register"}]
           /\ wakeCount' = [wakeCount EXCEPT ![id] = @ + 1]
    /\ wakers' = [wakers EXCEPT ![w] = Tail(@)]
    /\ UNCHANGED <<envVars, cmdVars, gateVars, listVars, AsyncEcsCounter, resVars, dpc, num_wakers,
                   tpc, futVars, startVars, regTask, late, runs, spurious, popped,
                   completions, drained>>

\* Lines 117-118: the loop is over; with num_wakers > 0 the driver goes on to
\* wg.wait(), else it leaves the then-block (the map's guard is dropped).
run_wake_end(w) ==
    /\ dpc[w] = "wake"
    /\ wakers[w] = <<>>
    /\ IF num_wakers[w] > 0
         THEN /\ dpc' = [dpc EXCEPT ![w] = "wait"]
              /\ waker_lock' = waker_lock
         ELSE /\ dpc' = [dpc EXCEPT ![w] = "close"]
              /\ waker_lock' = None
    /\ UNCHANGED <<envVars, cmdVars, gateVars, ASYNC_ECS_WAKER_LIST, AsyncEcsCounter, resVars,
                   wakers, num_wakers, tpc, woken, futVars, startVars, histVars>>

\* Lines 119-121: wg.wait() returns and the then-block ends.
run_wait(w) ==
    /\ dpc[w] = "wait"
    /\ wg_done(w)
    /\ dpc' = [dpc EXCEPT ![w] = "close"]
    /\ waker_lock' = None
    /\ UNCHANGED <<envVars, cmdVars, gateVars, ASYNC_ECS_WAKER_LIST, AsyncEcsCounter, resVars,
                   wakers, num_wakers, tpc, woken, futVars, startVars, histVars>>

\* A driver that returns without taking the handle out of the gate.
run_close_keep(w) ==
    /\ dpc[w] = "close"
    /\ lock_free
    /\ ~poisoned
    /\ is_some
    /\ dpc' = [dpc EXCEPT ![w] = "host"]
    /\ UNCHANGED <<envVars, cmdVars, gateVars, listVars, AsyncEcsCounter, resVars,
                   wakers, num_wakers, tpc, woken, futVars, startVars, histVars>>

\* A driver that takes the handle out without locking the gate mutex.
run_close_unlocked(w) ==
    /\ dpc[w] = "close"
    /\ ~poisoned
    /\ is_some
    /\ ASYNC_ECS_WORLD_ACCESS' = None
    /\ dpc' = [dpc EXCEPT ![w] = "host"]
    /\ UNCHANGED <<envVars, cmdVars, access_lock, poisoned, listVars, AsyncEcsCounter, resVars,
                   wakers, num_wakers, tpc, woken, futVars, startVars, histVars>>

\* Lines 122-128 with a handle in the gate: it is taken out and the system returns.
run_close(w) ==
    /\ dpc[w] = "close"
    /\ lock_free
    /\ ~poisoned
    /\ is_some
    /\ ASYNC_ECS_WORLD_ACCESS' = None
    /\ dpc' = [dpc EXCEPT ![w] = "host"]
    /\ UNCHANGED <<envVars, cmdVars, access_lock, poisoned, listVars, AsyncEcsCounter, resVars,
                   wakers, num_wakers, tpc, woken, futVars, startVars, histVars>>

\* ------------------------------------------------------------- specification
Next ==
    \/ \E t \in Task : poll_first(t)
    \/ \E t \in Task : poll_woken(t)
    \/ \E t \in Task : poll_spurious(t)
    \/ \E t \in Task : closure_take(t)
    \/ \E t \in Task : closure_return(t)
    \/ \E t \in Task : apply(t)
    \/ \E t \in Task : pop_ready(t)
    \/ \E t \in Task : poll_register(t)
    \/ \E t \in Task : drop_future(t)
    \/ \E w \in World : run_open(w)
    \/ \E w \in World : run_drain_some(w)
    \/ \E w \in World : run_drain_none(w)
    \/ \E w \in World : run_reset(w)
    \/ \E w \in World : run_wake(w)
    \/ \E w \in World : run_wake_end(w)
    \/ \E w \in World : run_wait(w)
    \/ \E w \in World : run_close(w)

Spec == Init /\ [][Next]_vars

\* The steps of task t that its executor takes without outside help: the first
\* poll of a future that is awaited, the poll after a wake, and every statement
\* of a poll once it has begun.  A spurious poll and a drop are never owed.
TaskStep(t) ==
    \/ poll_first(t)
    \/ poll_woken(t)
    \/ closure_take(t)
    \/ closure_return(t)
    \/ apply(t)
    \/ pop_ready(t)
    \/ poll_register(t)

\* The steps of the host loop of w: it keeps reaching its checkpoints (the
\* plugin adds the system to six schedules) and run_async_ecs_accesses runs on
\* whenever its next statement can.
DriverStep(w) ==
    \/ run_open(w)
    \/ run_drain_some(w)
    \/ run_drain_none(w)
    \/ run_reset(w)
    \/ run_wake(w)
    \/ run_wake_end(w)
    \/ run_wait(w)
    \/ run_close(w)

Fairness ==
    /\ \A t \in Task : WF_vars(TaskStep(t))
    /\ \A w \in World : WF_vars(DriverStep(w))

\* Spec with threads that keep running.
FairSpec == Init /\ [][Next]_vars /\ Fairness

\* ------------------------------------------------------------- two Worlds
\* Two Apps with the plugin in one process, their host loops on two threads:
\* the statics are shared.  Only here can a driver find the gate emptied by the
\* other one, so only here do the unwrap()s of lib.rs panic.
InitMulti == InitWith(World)

\* Lines 86-89 and 122-128: lock().unwrap() on a poisoned gate mutex, or
\* take().unwrap() on a gate that holds None, panics while the guard is alive:
\* the system dies and the mutex is (or stays) poisoned.
run_panic(w) ==
    /\ w \in worlds
    /\ lock_free
    /\ \/ dpc[w] = "host" /\ poisoned
       \/ dpc[w] = "close" /\ (poisoned \/ ~is_some)
    /\ dpc' = [dpc EXCEPT ![w] = "panic"]
    /\ poisoned' = TRUE
    /\ UNCHANGED <<envVars, cmdVars, ASYNC_ECS_WORLD_ACCESS, access_lock, listVars, AsyncEcsCounter,
                   resVars, wakers, num_wakers, tpc, woken, futVars, startVars, histVars>>

\* Line 46: lock().unwrap() on the poisoned gate mutex panics in the task.
poll_panic(t) ==
    /\ poisoned
    /\ lock_free
    /\ \/ tpc[t] = "new" /\ spurious' = spurious
       \/ tpc[t] = "parked" /\ woken[t] /\ spurious' = spurious
       \/ tpc[t] = "parked" /\ ~woken[t] /\ spurious < MaxSpurious /\ spurious' = spurious + 1
    /\ tpc' = [tpc EXCEPT ![t] = "panic"]
    /\ woken' = [woken EXCEPT ![t] = FALSE]
    /\ UNCHANGED <<envVars, cmdVars, gateVars, listVars, AsyncEcsCounter, resVars, drvVars,
                   futVars, startVars, regTask, wakeCount, late, runs, popped,
                   completions, drained>>

NextMulti ==
    \/ Next
    \/ \E w \in World : run_panic(w)
    \/ \E t \in Task : poll_panic(t)

SpecMulti == InitMulti /\ [][NextMulti]_vars

\* One World with the plugin and futures created with the id of any World: the
\* id of World B belongs to no World that runs run_async_ecs_accesses.
InitUnregistered == InitOf({"A"}, World)

SpecUnregistered == InitUnregistered /\ [][Next]_vars

\* ------------------------------------------------------------- a closure that panics
\* Line 58: the closure panics mid-run.  The unwinding drops the SystemState
\* (nothing is applied, lines 60-68 are not reached, no ticket is popped) and
\* the gate's guard, which poisons the gate mutex.
closure_panic(t) ==
    /\ tpc[t] = "write"
    /\ tpc' = [tpc EXCEPT ![t] = "panic"]
    /\ access_lock' = {}
    /\ poisoned' = TRUE
    /\ UNCHANGED <<envVars, cmdVars, ASYNC_ECS_WORLD_ACCESS, listVars, AsyncEcsCounter, resVars,
                   drvVars, woken, futVars, startVars, histVars>>

NextAbort ==
    \/ Next
    \/ \E t \in Task : closure_panic(t)
    \/ \E t \in Task : poll_panic(t)
    \/ \E w \in World : run_panic(w)

\* One World whose futures may be dropped and whose closures may panic.
SpecAbort == Init /\ [][NextAbort]_vars

\* ------------------------------------------------------------- well-behaved executors
\* No future is dropped, no closure panics, and a task is polled only when it
\* is first awaited and after its waker was called.
NextProgress ==
    \/ \E t \in Task : poll_first(t)
    \/ \E t \in Task : poll_woken(t)
    \/ \E t \in Task : closure_take(t)
    \/ \E t \in Task : closure_return(t)
    \/ \E t \in Task : apply(t)
    \/ \E t \in Task : pop_ready(t)
    \/ \E t \in Task : poll_register(t)
    \/ \E w \in World : run_open(w)
    \/ \E w \in World : run_drain_some(w)
    \/ \E w \in World : run_drain_none(w)
    \/ \E w \in World : run_reset(w)
    \/ \E w \in World : run_wake(w)
    \/ \E w \in World : run_wake_end(w)
    \/ \E w \in World : run_wait(w)
    \/ \E w \in World : run_close(w)

\* The executors re-poll every woken task and the host loop keeps reaching its
\* checkpoints.
SpecProgress == Init /\ [][NextProgress]_vars /\ Fairness

\* ------------------------------------------------------------- AsyncCommands::run
\* async_exclusive_access(world_id, schedule, closure): a new access future of
\* the task for its World, not yet polled, that goes through the same gate
\* and barrier as every other access.
async_exclusive_access(t) ==
    /\ tpc' = [tpc EXCEPT ![t] = "new"]
    /\ ecs_access' = [ecs_access EXCEPT ![t] = TRUE]
    /\ woken' = [woken EXCEPT ![t] = FALSE]

\* AsyncWorld::handle_error: run_exclusive on a closure that calls the World's
\* default error handler; the await is the polling of that future.
handle_error(t) == async_exclusive_access(t)

\* An async system that swallows its error: nothing is handed to handle_error.
system_err_swallow(t) ==
    /\ sys[t] = "running"
    /\ tpc[t] \in {"new", "done"}
    /\ sys' = [sys EXCEPT ![t] = "err"]
    /\ UNCHANGED <<envVars, handled, gateVars, listVars, AsyncEcsCounter, resVars, drvVars,
                   tpc, woken, futVars, startVars, histVars>>

\* async_commands.rs:20-28: system.run(world).await yields Err, before the
\* system asked for access or after its access resolved, and the error goes to
\* handle_error.
system_err(t) ==
    /\ sys[t] = "running"
    /\ tpc[t] \in {"new", "done"}
    /\ sys' = [sys EXCEPT ![t] = "err"]
    /\ handle_error(t)
    /\ UNCHANGED <<envVars, handled, gateVars, listVars, AsyncEcsCounter, resVars, drvVars,
                   wc, local, out, result, queued, startVars, histVars>>

\* async_commands.rs:20: system.run(world).await yields Ok after its access
\* resolved; the if-let does not match and the thread ends.
system_ok(t) ==
    /\ sys[t] = "running"
    /\ tpc[t] = "done"
    /\ sys' = [sys EXCEPT ![t] = "ok"]
    /\ UNCHANGED <<envVars, handled, gateVars, listVars, AsyncEcsCounter, resVars, drvVars,
                   tpc, woken, futVars, startVars, histVars>>

\* Each system runs under block_on on a thread of its own: its futures are
\* polled when first awaited and after a wake, and are not dropped.
NextCommands ==
    \/ NextProgress
    \/ \E t \in Task : system_err(t)
    \/ \E t \in Task : system_ok(t)

SpecCommands == Init /\ [][NextCommands]_vars /\ Fairness

\* ------------------------------------------------------------- properties

\* C1: when N wakers are registered for a World as its checkpoint begins and no
\* registration is in flight, the drain takes exactly N wakers, and the driver
\* is past wg.wait() only after exactly N tickets were popped, each by a closure
\* that completed in the window.
C1_DrainsAndAwaitsN ==
    \A w \in worlds :
        startClean[w] =>
            /\ dpc[w] \in {"reset", "wake", "wait", "close"} => num_wakers[w] = startN[w]
            /\ dpc[w] \in {"close", "host"} =>
                  /\ popped[w] = startN[w]
                  /\ completions[w] >= startN[w]

\* A checkpoint that began with two registered wakers has returned.
C1_Witness ==
    \E w \in worlds :
        /\ startClean[w]
        /\ dpc[w] = "host"
        /\ startN[w] >= 2
        /\ popped[w] = startN[w]

\* C2: when the driver has closed the gate and returned, every task whose waker
\* that checkpoint drained (and whose future still exists) has run its closure
\* to completion.
C2_WokenCompleteBeforeClose ==
    \A w \in worlds :
        dpc[w] = "host" =>
            \A t \in drained[w] : tpc[t] \in {"done", "dropped"}

\* C3: at most one closure is in progress, and none while the host loop of the
\* World in the gate runs outside run_async_ecs_accesses.
C3_MutualExclusion ==
    /\ Cardinality({t \in Task : InClosure(t)}) <= 1
    /\ \A t \in Task :
          InClosure(t) =>
              /\ wc[t] \in worlds
              /\ dpc[wc[t]] # "host"

\* A closure is half-way through its write while another woken task waits for
\* the gate mutex.
C3_Witness ==
    \E t, u \in Task :
        /\ tpc[t] = "write"
        /\ tpc[u] = "parked"
        /\ woken[u]

\* C4: a poll enters its closure only from a state where the gate holds a
\* handle, and the gate goes from Some to None only in a step taken while no
\* closure or deferred apply is in progress.
C4_ClosureOnlyWhileOpen ==
    [][ /\ \A t \in Task :
              (~InClosure(t) /\ InClosure(t)') => ASYNC_ECS_WORLD_ACCESS # None
        /\ (ASYNC_ECS_WORLD_ACCESS # None /\ ASYNC_ECS_WORLD_ACCESS' = None) =>
              \A t \in Task : ~InClosure(t)
      ]_vars

\* The driver is past wg.wait() and about to take the handle out while a closure
\* still applies its deferred mutation.
C4_Witness ==
    \E t \in Task :
        /\ tpc[t] = "apply"
        /\ ASYNC_ECS_WORLD_ACCESS \in worlds
        /\ dpc[ASYNC_ECS_WORLD_ACCESS] = "close"

\* C5: when every unresolved task is parked exactly once as the checkpoint
\* begins (N of them, each closure adding 1 to the counter), the counter has
\* grown by exactly N once the driver is past wg.wait().
C5_FanIn ==
    \A w \in worlds :
        (startFanIn[w] /\ dpc[w] \in {"close", "host"}) =>
            counter[w] = startCounter[w] + startN[w]

\* A checkpoint that began with at least two parked tasks, and nothing else
\* unresolved, has returned.
C5_Witness ==
    \E w \in worlds :
        /\ startFanIn[w]
        /\ dpc[w] = "host"
        /\ startN[w] >= 2
        /\ counter[w] = startCounter[w] + startN[w]

\* C6: a future runs its closure at most once, never on a poll that returns
\* Pending, exactly once when it has resolved, and resolves with the value the
\* closure returned (the counter it wrote); when a single task has run
\* "increment, return counter" on a counter of 0, the awaited result and the
\* counter are both 1.
C6_RoundTrip ==
    \A t \in Task :
        /\ runs[t] <= 1
        /\ tpc[t] \in {"new", "register", "parked", "dropped"} =>
              runs[t] = 0 /\ ecs_access[t]
        /\ tpc[t] = "done" =>
              /\ runs[t] = 1
              /\ ~ecs_access[t]
              /\ result[t] = local[t] + 1
              /\ (\A u \in Task \ {t} : runs[u] = 0) =>
                    /\ result[t] = 1
                    /\ counter[world_id[t]] = 1

\* One task was parked, was served by a checkpoint that has returned, and no
\* other closure has run.
C6_Witness ==
    \E t \in Task :
        /\ tpc[t] = "done"
        /\ t \in drained[world_id[t]]
        /\ dpc[world_id[t]] = "host"
        /\ \A u \in Task \ {t} : runs[u] = 0
        /\ result[t] = 1

\* C7: once a parked future has been dropped, every checkpoint that is under
\* way still returns.
C7_DropDoesNotBlock ==
    \A w \in World :
        ((\E t \in Task : tpc[t] = "dropped") /\ dpc[w] # "host") ~> (dpc[w] = "host")

\* C8: a step of the driver of one World leaves the gate, the waiter list and
\* the tickets of every other World as they were.
C8_Isolation ==
    [][ \A a, b \in worlds :
          (a # b /\ dpc'[a] # dpc[a]) =>
              /\ gate(b)' = gate(b)
              /\ waiting(b)' = waiting(b)
              /\ AsyncEcsCounter'[b] = AsyncEcsCounter[b]
      ]_vars

\* C9: a drain that finds no entry goes straight to the closing take(), the
\* driver is inside the then-block (and so at wg.wait()) only with wakers
\* drained, and a checkpoint that drained nothing returns with the gate closed.
C9_EmptyFastPath ==
    /\ [](\A w \in worlds :
             dpc[w] \in {"reset", "wake", "wait"} => num_wakers[w] > 0)
    /\ [][ \A w \in worlds :
             (dpc[w] = "drain" /\ ~contains_key(w) /\ dpc'[w] # "drain") =>
                 (dpc'[w] = "close" /\ num_wakers'[w] = 0) ]_vars
    /\ \A w \in World :
          (dpc[w] = "close" /\ num_wakers[w] = 0) ~>
              (dpc[w] = "host" /\ ASYNC_ECS_WORLD_ACCESS = None)

\* An empty checkpoint is at its closing take() while a first poll, which found
\* the gate open, runs its closure.
C9_Witness ==
    \E w \in worlds, t \in Task :
        /\ dpc[w] = "close"
        /\ num_wakers[w] = 0
        /\ startN[w] = 0
        /\ InClosure(t)

\* The registrations in a sequence, and whether none occurs twice in it.
Range(s) == {s[i] : i \in 1..Len(s)}

NoDuplicate(s) == Cardinality(Range(s)) = Len(s)

\* The registrations in the registry, and those drained but not yet woken.
RegistryIds == UNION {Range(waiting(w)) : w \in World}

DrainedIds == UNION {Range(wakers[w]) : w \in World}

\* C10: every registered waker is in exactly one place: the registry, a drained
\* Vec still to be woken, or woken once (never lost, never woken twice); after
\* a checkpoint's drain the registry holds only wakers registered after it (the
\* drain took all the earlier ones), and nothing registered after the drain is
\* among the wakers that checkpoint wakes.
C10_NoLostNoDoubleWake ==
    /\ Len(wakeCount) = Len(regTask)
    /\ LET registry == RegistryIds
           vecs == DrainedIds
       IN  \A id \in 1..Len(regTask) :
              (IF id \in registry THEN 1 ELSE 0)
                + (IF id \in vecs THEN 1 ELSE 0) + wakeCount[id] = 1
    /\ \A w \in World :
          /\ NoDuplicate(waiting(w))
          /\ NoDuplicate(wakers[w])
          /\ \A v \in World \ {w} :
                /\ Range(waiting(w)) \cap Range(waiting(v)) = {}
                /\ Range(wakers[w]) \cap Range(wakers[v]) = {}
          /\ \A id \in Range(waiting(w)) :
                /\ world_id[regTask[id]] = w
                /\ dpc[w] \in {"reset", "wake", "wait", "close"} => id \in late[w]
          /\ Range(wakers[w]) \cap late[w] = {}

\* A poll saw the gate closed before the checkpoint opened it and registered its
\* waker after that checkpoint's drain: the waker waits in the registry for the
\* next checkpoint, while one drained by this checkpoint was woken.
C10_Witness ==
    \E w \in worlds, id \in 1..Len(regTask) :
        /\ dpc[w] = "close"
        /\ id \in late[w]
        /\ id \in RegistryIds
        /\ wakeCount[id] = 0
        /\ \E other \in 1..Len(regTask) : wakeCount[other] = 1

\* The accesses that ran against World w and have come to their ticket or past
\* it, and those whose closure has returned.
AtTicket(w) == {t \in Task : wc[t] = w /\ tpc[t] \in {"pop", "done"}}

Returned(w) == {t \in Task : wc[t] = w /\ tpc[t] \in {"apply", "pop", "done"}}

\* C11: an access that resolves runs its closure, then applies its deferred
\* mutation, then decrements its ticket, all while the gate is open: a task at
\* its ticket or past it has run its closure once and has nothing queued, the
\* mutations applied to a World are those of the accesses at their ticket or
\* past it, nothing is queued while the gate is closed, and when the checkpoint
\* has returned every write of a closure has its mutation applied.
C11_ApplyBeforeTicket ==
    /\ \A t \in Task :
          /\ tpc[t] \in {"pop", "done"} => ~queued[t] /\ runs[t] = 1
          /\ queued[t] => tpc[t] = "apply" /\ ASYNC_ECS_WORLD_ACCESS = wc[t]
    /\ \A w \in World :
          /\ applied[w] = Cardinality(AtTicket(w))
          /\ counter[w] = Cardinality(Returned(w))
          /\ dpc[w] = "host" /\ ~is_some => applied[w] = counter[w]

\* An access has applied its deferred mutation and still holds its ticket,
\* which the driver is waiting for.
C11_Witness ==
    \E t \in Task :
        /\ tpc[t] = "pop"
        /\ applied[wc[t]] >= 1
        /\ AsyncEcsCounter[wc[t]] >= 1
        /\ dpc[wc[t]] = "wait"

\* C12: spurious polls are tolerated: a future polled while the gate is closed
\* stays pending with its closure not run, no closure runs more than once, and
\* the extra polls do not inflate the number of completions the driver of the
\* following checkpoint waits for, which is the number of futures it drained.
C12_SpuriousTolerated ==
    /\ \A t \in Task :
          /\ tpc[t] \in {"register", "parked"} => ecs_access[t] /\ runs[t] = 0
          /\ runs[t] <= 1
    /\ \A w \in World :
          dpc[w] \in {"wake", "wait"} => num_wakers[w] = Cardinality(drained[w])

\* The two parts of C12 that do not depend on the count of registrations.
C12_PendingWithoutRun ==
    \A t \in Task :
        /\ tpc[t] \in {"register", "parked"} => ecs_access[t] /\ runs[t] = 0
        /\ runs[t] <= 1

\* With a future registered twice the driver leaves wg.wait(): only by a pop of
\* a future it did not drain.
C12_DoubleRegistrationReturns ==
    \A w \in World :
        dpc[w] = "close" /\ num_wakers[w] > Cardinality(drained[w])
            => \E t \in Task \ drained[w] : tpc[t] = "done"

\* No run_async_ecs_accesses is between its open and its close.
NoCheckpoint == \A w \in World : dpc[w] = "host"

\* C13: the gate holds a handle only between the open and the close of a
\* run_async_ecs_accesses of that World; it is closed initially and whenever no
\* checkpoint is in progress, so a poll made with no checkpoint active does not
\* run the closure: it goes to the Pending branch, appends its waker to the
\* list of its World and parks.
C13_GateOnlyInCheckpoint ==
    /\ [](/\ is_some => dpc[ASYNC_ECS_WORLD_ACCESS] \in {"drain", "reset", "wake", "wait", "close"}
          /\ NoCheckpoint => ~is_some)
    /\ [][\A t \in Task :
             NoCheckpoint /\ tpc[t] \in {"new", "parked"}
                          /\ tpc'[t] \notin {tpc[t], "dropped"}
                 => /\ tpc'[t] = "register"
                    /\ runs'[t] = runs[t]
                    /\ ecs_access'[t]]_vars
    /\ [][\A t \in Task :
             tpc[t] = "register" /\ tpc'[t] # "register"
                 => /\ tpc'[t] = "parked"
                    /\ runs'[t] = runs[t]
                    /\ Len(regTask') = Len(regTask) + 1
                    /\ regTask'[Len(regTask')] = t
                    /\ ASYNC_ECS_WAKER_LIST'[world_id[t]]
                          = Append(waiting(world_id[t]), Len(regTask'))]_vars

\* After a checkpoint that served another access has closed the gate, a future
\* polled with no checkpoint active is parked with its waker in the list and
\* its closure not run.
C13_Witness ==
    \E t \in Task :
        /\ NoCheckpoint
        /\ ~is_some
        /\ tpc[t] = "parked"
        /\ runs[t] = 0
        /\ t \in TasksOf(waiting(world_id[t]))
        /\ \E u \in Task : tpc[u] = "done"

\* C14: in each checkpoint with waiters the tickets are reset to exactly the
\* number N of wakers drained, the number of tickets when the driver begins to
\* wait (the step from the fan-out to wg.wait()) equals N, the number of tickets
\* is never below zero, and it is zero whenever run_async_ecs_accesses has
\* returned.
C14_TicketCount ==
    /\ [](\A w \in World :
             /\ AsyncEcsCounter[w] >= 0
             /\ dpc[w] = "host" => AsyncEcsCounter[w] = 0)
    /\ [][\A w \in World :
             dpc[w] = "reset" /\ dpc'[w] = "wake"
                 => AsyncEcsCounter'[w] = num_wakers[w]]_vars
    /\ [][\A w \in World :
             dpc[w] = "wake" /\ dpc'[w] = "wait"
                 => AsyncEcsCounter[w] = num_wakers[w]]_vars

\* C14, amended: the tickets are reset to exactly N; from the reset until the
\* driver returns the tickets left plus the tickets popped since the reset
\* make N, so that the driver begins to wait with at most N tickets (tasks woken
\* by the fan-out may have popped theirs already); the number of tickets is
\* never below zero, a pop on the empty Vec changes nothing, and it is zero
\* whenever run_async_ecs_accesses has returned.
C14_TicketCountAmended ==
    /\ [](\A w \in World :
             /\ AsyncEcsCounter[w] >= 0
             /\ dpc[w] \in {"close", "host"} => AsyncEcsCounter[w] = 0
             /\ dpc[w] \in {"wake", "wait", "close", "host"}
                   => AsyncEcsCounter[w] + popped[w] = num_wakers[w])
    /\ [][\A w \in World :
             dpc[w] = "reset" /\ dpc'[w] = "wake"
                 => AsyncEcsCounter'[w] = num_wakers[w]]_vars
    /\ [][\A w \in World :
             dpc[w] = "wake" /\ dpc'[w] = "wait"
                 => AsyncEcsCounter[w] <= num_wakers[w]]_vars
    /\ [][\A w \in World :
             AsyncEcsCounter[w] = 0 /\ dpc'[w] = dpc[w]
                 => AsyncEcsCounter'[w] = 0]_vars

\* The fan-out has woken both wakers and the driver is about to call
\* wg.wait(); one of the woken tasks has popped its ticket already.
C14_Witness ==
    \E w \in worlds :
        /\ dpc[w] = "wake"
        /\ wakers[w] = <<>>
        /\ AsyncEcsCounter[w] > 0
        /\ AsyncEcsCounter[w] < num_wakers[w]

\* C15: an access created for World R runs its closure only against R's handle
\* and pops only R's tickets: while the window of another World is open and R's
\* is not, a poll of the future neither runs against that World nor consumes
\* one of its tickets.
C15_OwnResourceOnly ==
    /\ [](\A t \in Task : InClosure(t) => wc[t] = world_id[t])
    /\ [][\A t \in Task, w \in World :
             tpc[t] = "pop" /\ AsyncEcsCounter'[w] # AsyncEcsCounter[w]
                            /\ dpc'[w] = dpc[w]
                 => w = world_id[t]]_vars

\* C16: an access created with the id of a World that has no plugin fails
\* fast: its future does not stay pending (it is never parked with a waker in
\* the registry), and it never runs its closure against a World that has the
\* plugin nor pops one of that World's tickets.
C16_UnregisteredFailsFast ==
    \A t \in Task :
        world_id[t] \notin worlds
            => tpc[t] # "parked" /\ ~InClosure(t) /\ runs[t] = 0

\* No checkpoint ever wakes a waker registered under the id of a World without
\* the plugin: only a poll that nobody asked for gets such a future further.
C16_UnregisteredNeverWoken ==
    \A id \in 1..Len(regTask) :
        world_id[regTask[id]] \notin worlds => wakeCount[id] = 0

\* A future created with the id of a World without the plugin has run its
\* closure against the World whose window was open.
C16_UnregisteredRuns ==
    \E t \in Task : world_id[t] \notin worlds /\ tpc[t] = "done" /\ wc[t] \in worlds

\* A continuation whose waker the checkpoint of w drained was dropped or has
\* aborted: it has not popped a ticket and never will.
Hazard(w) == \E t \in drained[w] : tpc[t] \in {"dropped", "panic"}

\* C17: if a continuation whose waker was drained at a checkpoint is dropped or
\* aborts without decrementing its ticket, the driver of that checkpoint blocks
\* forever: once it is at wg.wait() with such a continuation it stays there,
\* and the gate stays open.
C17_DropBlocksForever ==
    [][\A w \in World :
          dpc[w] = "wait" /\ Hazard(w)
              => dpc'[w] = "wait" /\ ASYNC_ECS_WORLD_ACCESS' = w]_vars

\* The driver gets past wg.wait() in spite of a dropped or aborted continuation
\* only when a future that was not drained has popped in its place.
C17_ReleasedByOthers ==
    \A w \in World :
        dpc[w] \in {"close", "host"} /\ Hazard(w) /\ num_wakers[w] > 0
            => \E u \in Task \ drained[w] : tpc[u] = "done"

\* C18: with no drops, no aborts, polls only when first awaited and after a
\* wake, executors that re-poll every woken task and a host that keeps invoking
\* checkpoints, every checkpoint that has begun returns and every access future
\* resolves, also one first polled while a window is open and one that was
\* woken, found the gate closed and parked again.
C18_Progress ==
    /\ \A w \in World : (dpc[w] # "host") ~> (dpc[w] = "host")
    /\ \A t \in Task : <>(tpc[t] = "done" /\ runs[t] = 1)
    /\ \A t \in Task : (tpc[t] = "register") ~> (tpc[t] = "done")

\* A task was woken by one checkpoint, found the gate closed (another poller
\* had popped its ticket), registered again and was served by a later
\* checkpoint: two of its wakers were woken and its future is resolved.
C18_Witness ==
    \E i, j \in 1..Len(regTask) :
        /\ i < j
        /\ regTask[i] = regTask[j]
        /\ wakeCount[i] = 1
        /\ wakeCount[j] = 1
        /\ spurious = 0
        /\ tpc[regTask[i]] = "done"
        /\ \A t \in Task : tpc[t] = "done"
        /\ NoCheckpoint

\* Registrations are numbered in the order of their push: a sequence of them is
\* in registration order when the numbers rise.
InRegistrationOrder(s) == \A i, j \in 1..Len(s) : i < j => s[i] < s[j]

\* C20: within one checkpoint the wakers are woken in the order in which they
\* were registered: the list of a World and the drained Vec are in registration
\* order (pushes append, nothing else writes between drains), and each step of
\* the fan-out wakes a waker registered before every waker it has still to
\* wake.  The order in which the woken tasks complete is not constrained.
C20_WakeInRegistrationOrder ==
    /\ [](\A w \in World :
             /\ InRegistrationOrder(waiting(w))
             /\ InRegistrationOrder(wakers[w]))
    /\ [][\A w \in World, id \in 1..Len(regTask) :
             dpc[w] = "wake" /\ wakers'[w] # wakers[w] /\ wakeCount'[id] # wakeCount[id]
                 => /\ id = Head(wakers[w])
                    /\ \A k \in Range(wakers'[w]) : id < k]_vars

\* Two wakers were woken by one checkpoint in registration order, and the task
\* registered second has completed while the one registered first has not
\* been polled again yet.
C20_Witness ==
    \E w \in worlds, i, j \in 1..Len(regTask) :
        /\ i < j
        /\ dpc[w] = "wait"
        /\ num_wakers[w] = 2
        /\ {regTask[i], regTask[j]} = drained[w]
        /\ wakeCount[i] = 1
        /\ wakeCount[j] = 1
        /\ tpc[regTask[j]] = "done"
        /\ tpc[regTask[i]] = "parked"
        /\ woken[regTask[i]]

\* The gate holds the handle of a World whose driver is inside its checkpoint.
InWindow ==
    /\ is_some
    /\ dpc[ASYNC_ECS_WORLD_ACCESS] \in {"drain", "reset", "wake", "wait", "close"}

\* C19: an async system run by AsyncCommands::run that finishes with Err has
\* its error delivered to the World's error handler exactly once (never twice,
\* and once when the access of handle_error has resolved, which it eventually
\* does), the handler runs as an access inside a checkpoint window under the
\* gate's lock; a system that is running or finished with Ok has had no
\* handler call; and the value an access resolves to is the one its closure
\* returned.
C19_ErrorDeliveredOnce ==
    /\ [](\A t \in Task :
             /\ sys[t] # "err" => handled[t] = 0
             /\ handled[t] <= 1
             /\ sys[t] = "err" /\ tpc[t] = "done" => handled[t] = 1
             /\ sys[t] = "err" /\ InClosure(t) => InWindow /\ access_lock = {t}
             /\ tpc[t] = "done" /\ sys[t] # "err"
                   => result[t] = out[t] /\ result[t] = local[t] + 1)
    /\ [][\A t \in Task : handled'[t] # handled[t] => InWindow]_vars
    /\ \A t \in Task : (sys[t] = "err") ~> (handled[t] = 1 /\ tpc[t] = "done")

\* One system's access resolved and the system then failed: its error was
\* handled once, inside a later window; the other system finished with Ok.
C19_Witness ==
    \E t, u \in Task :
        /\ sys[t] = "err"
        /\ runs[t] = 2
        /\ handled[t] = 1
        /\ tpc[t] = "done"
        /\ sys[u] = "ok"
        /\ handled[u] = 0
        /\ NoCheckpoint

====
